---- MODULE Spec2Model ----
(***************************************************************************)
(* A model of DinamoFlow.py: the two operations (NormalizeAmountOperation, *)
(* ContextualFieldValidation), the registry of RecordContextManager and    *)
(* the generator process_stream.                                           *)
(*                                                                         *)
(* A Python value is a tagged record [t |-> tag, v |-> payload].  A str is *)
(* the sequence of its characters, so that re.sub, str.replace, float()    *)
(* and re.match are computed character by character.  A number carries the *)
(* characters of its Python repr (12.5 is "12.5", int 0 is "0").  A dict   *)
(* is a function on Fields; a key that is not in the dict maps to Absent.  *)
(* An error message is [text |-> the f-string's template, arg |-> the text *)
(* substituted into it].                                                   *)
(***************************************************************************)
EXTENDS Integers, Sequences, FiniteSets, TLC

(***************************************************************************)
(* Bounds of the model.                                                    *)
(***************************************************************************)
\* the longest record_iterator handed to process_stream
MaxRecords == 2
\* how many times one record is passed through process_stream
MaxPasses == 2

(***************************************************************************)
(* Python values.                                                          *)
(***************************************************************************)
Absent == [t |-> "absent", v |-> <<>>]
None == [t |-> "null", v |-> <<>>]
PyStr(chars) == [t |-> "str", v |-> chars]
PyInt(chars) == [t |-> "int", v |-> chars]
PyFloat(chars) == [t |-> "float", v |-> chars]
PyTrue == [t |-> "bool", v |-> <<"T", "r", "u", "e">>]
PyFalse == [t |-> "bool", v |-> <<"F", "a", "l", "s", "e">>]

Digits == {"0", "1", "2", "3", "4", "5", "6", "7", "8", "9"}

\* str(value): a str is itself, None is "None", a bool "True"/"False", a
\* number its repr.
str(value) ==
    IF value.t = "null" THEN <<"N", "o", "n", "e">> ELSE value.v

\* Python truthiness of a field value: None, False, "", 0, 0.0 and -0.0 are
\* falsy.
Truthy(value) ==
    CASE value.t = "null" -> FALSE
      [] value.t = "bool" -> value = PyTrue
      [] value.t = "str" -> value.v # <<>>
      [] value.t = "int" -> value.v \notin {<<"0">>, <<"-", "0">>}
      [] value.t = "float" -> value.v \notin {<<"0", ".", "0">>, <<"-", "0", ".", "0">>}
      [] OTHER -> TRUE

(***************************************************************************)
(* Sequence helpers.                                                       *)
(***************************************************************************)
AllIn(s, S) == \A i \in 1..Len(s) : s[i] \in S

Count(s, c) == Cardinality({i \in 1..Len(s) : s[i] = c})

\* index of the first element of s that is c, or 0
IndexOf(s, c) ==
    IF \E i \in 1..Len(s) : s[i] = c
    THEN CHOOSE i \in 1..Len(s) : s[i] = c /\ \A j \in 1..(i - 1) : s[j] # c
    ELSE 0

RECURSIVE StripLeadingZeros(_)
StripLeadingZeros(s) ==
    IF Len(s) > 1 /\ Head(s) = "0" THEN StripLeadingZeros(Tail(s)) ELSE s

RECURSIVE StripTrailingZeros(_)
StripTrailingZeros(s) ==
    IF Len(s) > 1 /\ s[Len(s)] = "0"
    THEN StripTrailingZeros(SubSeq(s, 1, Len(s) - 1))
    ELSE s

(***************************************************************************)
(* NormalizeAmountOperation.apply, lines 44-54.                            *)
(***************************************************************************)
\* re.sub(r"[^\d.,-]", "", s): every character that is not a digit, '.',
\* ',' or '-' is removed.
re_sub(s) == SelectSeq(s, LAMBDA c : c \in Digits \cup {".", ",", "-"})

\* s.replace(",", ".")
replace(s) == [i \in 1..Len(s) |-> IF s[i] = "," THEN "." ELSE s[i]]

cleaned_value(value) == replace(re_sub(str(value)))

\* The text float() accepts among the strings made of digits, '.' and '-':
\* an optional leading '-', then digits with at most one '.', and at least
\* one digit.  Anything else raises ValueError.
FloatParses(s) ==
    LET body == IF s # <<>> /\ Head(s) = "-" THEN Tail(s) ELSE s
    IN  /\ AllIn(body, Digits \cup {"."})
        /\ Count(body, ".") <= 1
        /\ \E i \in 1..Len(body) : body[i] \in Digits

\* float(s) for a string FloatParses accepts, as the repr of the float:
\* leading zeros of the integer part and trailing zeros of the fraction go,
\* an empty part reads as 0, the sign stays.  (Exact for the magnitudes
\* between 1e-4 and 1e16 with at most 15 significant digits, where repr
\* uses no exponent.)
float(s) ==
    LET neg == s # <<>> /\ Head(s) = "-"
        body == IF neg THEN Tail(s) ELSE s
        dot == IndexOf(body, ".")
        ip == IF dot = 0 THEN body ELSE SubSeq(body, 1, dot - 1)
        fp == IF dot = 0 THEN <<>> ELSE SubSeq(body, dot + 1, Len(body))
        ipn == IF ip = <<>> THEN <<"0">> ELSE StripLeadingZeros(ip)
        fpn == IF fp = <<>> THEN <<"0">> ELSE StripTrailingZeros(fp)
    IN  PyFloat((IF neg THEN <<"-">> ELSE <<>>) \o ipn \o <<".">> \o fpn)

(***************************************************************************)
(* Error messages: the f-strings of the source.                            *)
(***************************************************************************)
Msg(text, arg) == [text |-> text, arg |-> arg]

\* line 34
MsgNoEncontrado(field_name) == Msg("Campo ' {}' no encontrado", <<field_name>>)
\* line 53; the argument is str(value)
MsgNoFloat(value) == Msg("Valor ' {}' no se puede convertirse a float", str(value))
\* line 74
MsgObligatorio(field_name) ==
    Msg("Campo obligatorio ' {}' no encontrado", <<field_name>>)
\* line 76
MsgFormato(field_name) == Msg("Campo ' {}' no cumple formato esperado", <<field_name>>)
\* line 78
MsgVacio(field_name) == Msg("Campo obligatorio '{}' está vacío", <<field_name>>)
\* line 115; context_type is None when the key is absent, and f"{None}" is
\* "None"
MsgTipo(context_type) ==
    Msg("Tipo de registro '{}' no reconocido",
        IF context_type.t \in {"absent", "null"} THEN <<"None">> ELSE context_type.v)

(***************************************************************************)
(* Records: a dict with the three metadata keys and the data keys.         *)
(***************************************************************************)
DataFields == {"amount", "order_id"}
MetaFields == {"__type__", "__estado__", "__errors__"}
Fields == MetaFields \cup DataFields

VALIDO == "válido"
INVALIDO == "inválido"

\* record[key] = value
SetItem(record, key, value) == [record EXCEPT ![key] = value]

\* key in record
Has(record, key) == record[key].t # "absent"

\* setdefault as an assignment: an existing value is overwritten
setdefault_overwrites(record, key, value) == SetItem(record, key, value)

\* record.setdefault(key, value): only a key that is not in the dict is set
setdefault(record, key, value) ==
    IF Has(record, key) THEN record ELSE SetItem(record, key, value)

PyList(msgs) == [t |-> "list", v |-> msgs]

\* apply without line 54: a value that does not parse stays in the field
NormalizeAmountOperation_apply_keeps(field_name, record) ==
    IF ~Has(record, field_name)
    THEN [record |-> SetItem(record, field_name, None),
          errors |-> <<MsgNoEncontrado(field_name)>>]
    ELSE LET value == record[field_name] IN
         IF value = None
         THEN [record |-> record, errors |-> <<>>]
         ELSE IF FloatParses(cleaned_value(value))
              THEN [record |-> SetItem(record, field_name, float(cleaned_value(value))),
                    errors |-> <<>>]
              ELSE [record |-> record, errors |-> <<MsgNoFloat(value)>>]

(***************************************************************************)
(* NormalizeAmountOperation.apply(record), lines 30-55.  The result is the *)
(* pair the method returns.                                                *)
(***************************************************************************)
NormalizeAmountOperation_apply(field_name, record) ==
    IF ~Has(record, field_name)
    THEN [record |-> SetItem(record, field_name, None),
          errors |-> <<MsgNoEncontrado(field_name)>>]
    ELSE LET value == record[field_name] IN
         IF value = None
         THEN [record |-> record, errors |-> <<>>]
         ELSE IF FloatParses(cleaned_value(value))
              THEN [record |-> SetItem(record, field_name, float(cleaned_value(value))),
                    errors |-> <<>>]
              ELSE [record |-> SetItem(record, field_name, None),
                    errors |-> <<MsgNoFloat(value)>>]

(***************************************************************************)
(* ContextualFieldValidation.apply(record), lines 71-79.                   *)
(***************************************************************************)
NoRegex == ""
RegexORD == "^ORD\\d+$"
RegexDigits == "^\\d+$"

\* '$' matches at the end of the string and before a newline that ends it
DropFinalNewline(s) ==
    IF s # <<>> /\ s[Len(s)] = "\n" THEN SubSeq(s, 1, Len(s) - 1) ELSE s

\* re.match(regex, s) is not None, for the patterns of the model
re_match(regex, s) ==
    LET body == DropFinalNewline(s) IN
    CASE regex = RegexORD ->
            /\ Len(body) >= 4
            /\ SubSeq(body, 1, 3) = <<"O", "R", "D">>
            /\ AllIn(SubSeq(body, 4, Len(body)), Digits)
      [] regex = RegexDigits ->
            /\ Len(body) >= 1
            /\ AllIn(body, Digits)
      [] OTHER -> TRUE

\* apply with the emptiness test ahead of the pattern test
ContextualFieldValidation_apply_empty_first(field_name, regex, record) ==
    [record |-> record,
     errors |->
        IF ~Has(record, field_name)
        THEN <<MsgObligatorio(field_name)>>
        ELSE IF ~Truthy(record[field_name])
             THEN <<MsgVacio(field_name)>>
             ELSE IF regex # NoRegex /\ ~re_match(regex, str(record[field_name]))
                  THEN <<MsgFormato(field_name)>>
                  ELSE <<>>]

ContextualFieldValidation_apply(field_name, regex, record) ==
    [record |-> record,
     errors |->
        IF ~Has(record, field_name)
        THEN <<MsgObligatorio(field_name)>>
        ELSE IF regex # NoRegex /\ ~re_match(regex, str(record[field_name]))
             THEN <<MsgFormato(field_name)>>
             ELSE IF ~Truthy(record[field_name])
                  THEN <<MsgVacio(field_name)>>
                  ELSE <<>>]

(***************************************************************************)
(* Operation objects and Operation.apply.                                  *)
(***************************************************************************)
NormalizeAmountOperation(field_name) ==
    [kind |-> "NormalizeAmountOperation", field_name |-> field_name, regex |-> NoRegex]

ContextualFieldValidation(field_name, regex) ==
    [kind |-> "ContextualFieldValidation", field_name |-> field_name, regex |-> regex]

apply(operation, record) ==
    IF operation.kind = "NormalizeAmountOperation"
    THEN NormalizeAmountOperation_apply(operation.field_name, record)
    ELSE ContextualFieldValidation_apply(operation.field_name, operation.regex, record)

(***************************************************************************)
(* The inputs of the model: the context types and operation lists handed   *)
(* to register_context, and the records the record_iterator produces.      *)
(***************************************************************************)
TypeIds == {"order_event", ""}

\* the shape of the "order_event" context of the __main__ block: normalize
\* the amount, validate the identifier against a pattern, validate a field
\* without a pattern
ChainOrder ==
    <<NormalizeAmountOperation("amount"),
      ContextualFieldValidation("order_id", RegexORD),
      ContextualFieldValidation("amount", NoRegex)>>
\* the validation of the amount before its normalization
ChainReversed ==
    <<ContextualFieldValidation("amount", NoRegex),
      NormalizeAmountOperation("amount")>>
ChainDigits == <<ContextualFieldValidation("order_id", RegexDigits)>>
ChainEmpty == <<>>

Chains == {ChainOrder, ChainReversed, ChainDigits, ChainEmpty}

Text(name) == [t |-> "str", v |-> <<name>>]

TypeValues ==
    {Absent, None, Text("order_event"), Text(""), Text("product_update")}

AmountValues ==
    {Absent, None, PyTrue, PyInt(<<"0">>),
     PyStr(<<"1", "2", ",", "5", " ", "E">>),
     PyStr(<<"n", "o">>),
     PyStr(<<"1", ",", "2", ".", "3">>),
     PyStr(<<"-", "0", "7">>),
     PyStr(<<>>)}

OrderValues ==
    {Absent, None, PyInt(<<"0">>),
     PyStr(<<"O", "R", "D", "7">>),
     PyStr(<<"O", "R", "D", "7", "\n">>),
     PyStr(<<"O", "R", "D", "X">>),
     PyStr(<<"7">>),
     PyStr(<<>>)}

\* an error message left in __errors__ by an earlier pass
MsgOld == MsgFormato("order_id")

EstadoValues == {Absent, Text(VALIDO), Text(INVALIDO)}
ErrorsValues == {Absent, PyList(<<>>), PyList(<<MsgOld>>)}

MkRecord(type, estado, errs, amount, order_id) ==
    [k \in Fields |->
        CASE k = "__type__" -> type
          [] k = "__estado__" -> estado
          [] k = "__errors__" -> errs
          [] k = "amount" -> amount
          [] k = "order_id" -> order_id]

\* records as an external source produces them: no metadata yet
FreshRecords ==
    {MkRecord(ty, Absent, Absent, a, o) :
        ty \in TypeValues, a \in AmountValues, o \in OrderValues}

\* records that already carry __estado__ and/or __errors__
MarkedRecords ==
    {MkRecord(ty, e, l, a, PyStr(<<"O", "R", "D", "7">>)) :
        ty \in TypeValues, e \in EstadoValues, l \in ErrorsValues,
        a \in {PyStr(<<"1", "2", ",", "5", " ", "E">>), PyStr(<<"n", "o">>)}}

Records == FreshRecords \cup MarkedRecords

\* records whose __errors__ is not a list but None
ForeignRecords ==
    {MkRecord(ty, Absent, l, a, PyStr(<<"O", "R", "D", "7">>)) :
        ty \in TypeValues, l \in {None},
        a \in {PyStr(<<"1", "2", ",", "5", " ", "E">>), PyStr(<<"n", "o">>)}}

(***************************************************************************)
(* The state.                                                              *)
(***************************************************************************)
VARIABLES
    context_operations, \* RecordContextManager.context_operations
    pc,                 \* where the caller and the generator stand
    call,               \* the register_context call in flight
    raised,             \* the exception the last call or resumption raised
    remaining,          \* records the record_iterator still holds
    pulled,             \* records the for loop has taken from it
    emitted,            \* pairs process_stream has yielded
    pass,               \* how many times the current record has been through
    input,              \* the current record as the for loop received it
    record,             \* the current record (the loop variable)
    errors,             \* the local list errors
    op_index,           \* the position of the inner for loop in the chain
    applied,            \* the last operation.apply call and what it returned
    out                 \* the pair handed to the consumer by yield

vars ==
    <<context_operations, pc, call, raised, remaining, pulled, emitted, pass,
      input, record, errors, op_index, applied, out>>

EmptyRecord == MkRecord(Absent, Absent, Absent, Absent, Absent)
NoOperation == [kind |-> "none", field_name |-> "", regex |-> NoRegex]
NoCall == [context_type |-> "", operations |-> <<>>, pending |-> FALSE]
NoApplied ==
    [operation |-> NoOperation, before |-> EmptyRecord, after |-> EmptyRecord,
     errors |-> <<>>]
NoOut == [record |-> EmptyRecord, errors |-> <<>>, n |-> 0]

\* RecordContextManager.__init__, line 87: an empty dict
Init ==
    /\ context_operations = [t \in {} |-> <<>>]
    /\ pc = "setup"
    /\ call = NoCall
    /\ raised = ""
    /\ remaining = 0
    /\ pulled = 0
    /\ emitted = 0
    /\ pass = 0
    /\ input = EmptyRecord
    /\ record = EmptyRecord
    /\ errors = <<>>
    /\ op_index = 0
    /\ applied = NoApplied
    /\ out = NoOut

stream_vars ==
    <<remaining, pulled, emitted, pass, input, record, errors, op_index, applied, out>>

(***************************************************************************)
(* register_context, lines 89-98.                                          *)
(***************************************************************************)
\* register_context without the test of line 96: the entry is replaced
register_context_overwrites(operations_by_type, context_type, operations) ==
    [context_operations |->
        [t \in DOMAIN operations_by_type \cup {context_type} |->
            IF t = context_type THEN operations ELSE operations_by_type[t]],
     raised |-> ""]

\* the dict and the exception register_context leaves
register_context(operations_by_type, context_type, operations) ==
    IF context_type \in DOMAIN operations_by_type
    THEN [context_operations |-> operations_by_type, raised |-> "ValueError"]
    ELSE [context_operations |->
              [t \in DOMAIN operations_by_type \cup {context_type} |->
                  IF t = context_type THEN operations ELSE operations_by_type[t]],
          raised |-> ""]

\* the setup code calls register_context(context_type, operations)
CallRegister ==
    /\ pc = "setup"
    /\ \E context_type \in TypeIds, operations \in Chains :
          call' = [context_type |-> context_type, operations |-> operations,
                   pending |-> TRUE]
    /\ pc' = "register"
    /\ raised' = ""
    /\ UNCHANGED <<context_operations, stream_vars>>

\* the body of register_context runs
RegisterContext ==
    /\ pc = "register"
    /\ LET r == register_context(context_operations, call.context_type, call.operations)
       IN  /\ context_operations' = r.context_operations
           /\ raised' = r.raised
    /\ call' = NoCall
    /\ pc' = "setup"
    /\ UNCHANGED stream_vars

(***************************************************************************)
(* process_stream, lines 100-132.  The generator runs from one yield to    *)
(* the next; its steps are taken in the order of the code.                 *)
(***************************************************************************)
\* lines 110-111
ApplyDefaults(rec) ==
    setdefault(setdefault(rec, "__estado__", Text(VALIDO)), "__errors__", PyList(<<>>))

\* line 114: not context_type or context_type not in self.context_operations,
\* where context_type is record.get("__type__"): None when the key is absent
Unrecognized(context_type, operations_by_type) ==
    \/ context_type.t \in {"absent", "null"}
    \/ context_type.v = <<"">>
    \/ context_type.v[1] \notin DOMAIN operations_by_type

\* record["__errors__"].append / .extend: a value that is no list has
\* neither method, and the call raises AttributeError
IsList(value) == value.t = "list"
Extend(value, msgs) == PyList(value.v \o msgs)

\* the branch without line 117: the status is left as it was
RejectKeepsStatus(rec, errs) ==
    LET error_msg == MsgTipo(rec["__type__"])
    IN  IF IsList(rec["__errors__"])
        THEN [record |-> SetItem(rec, "__errors__",
                                 Extend(rec["__errors__"], <<error_msg>>)),
              errors |-> Append(errs, error_msg),
              raised |-> ""]
        ELSE [record |-> rec, errors |-> Append(errs, error_msg),
              raised |-> "AttributeError"]

\* lines 115-118: what the branch leaves in errors and record, and the
\* exception it raises
Reject(rec, errs) ==
    LET error_msg == MsgTipo(rec["__type__"])
        marked == SetItem(rec, "__estado__", Text(INVALIDO))
    IN  IF IsList(marked["__errors__"])
        THEN [record |-> SetItem(marked, "__errors__",
                                 Extend(marked["__errors__"], <<error_msg>>)),
              errors |-> Append(errs, error_msg),
              raised |-> ""]
        ELSE [record |-> marked, errors |-> Append(errs, error_msg),
              raised |-> "AttributeError"]

\* lines 127-130 without the test of line 126
FinishAlwaysInvalid(rec, errs) ==
    LET marked == SetItem(rec, "__estado__", Text(INVALIDO))
    IN  IF IsList(marked["__errors__"])
        THEN [record |-> SetItem(marked, "__errors__",
                                 Extend(marked["__errors__"], errs)),
              errors |-> errs,
              raised |-> ""]
        ELSE [record |-> marked, errors |-> errs, raised |-> "AttributeError"]

\* lines 126-130
Finish(rec, errs) ==
    IF errs = <<>>
    THEN [record |-> rec, errors |-> errs, raised |-> ""]
    ELSE LET marked == SetItem(rec, "__estado__", Text(INVALIDO))
         IN  IF IsList(marked["__errors__"])
             THEN [record |-> SetItem(marked, "__errors__",
                                      Extend(marked["__errors__"], errs)),
                   errors |-> errs,
                   raised |-> ""]
             ELSE [record |-> marked, errors |-> errs, raised |-> "AttributeError"]

\* line 122: self.context_operations[context_type]
Chain == context_operations[input["__type__"].v[1]]

\* the chain walked from its end
NextOperationReversed(operations, k) == operations[Len(operations) + 1 - k]

\* the operation the inner for loop hands out at position k
NextOperation(operations, k) == operations[k]

\* the caller starts process_stream on an iterator of n records; nothing of
\* the generator's body has run yet
StartStream ==
    /\ pc = "setup"
    /\ \E n \in 0..MaxRecords : remaining' = n
    /\ pc' = "next"
    /\ raised' = ""
    /\ pulled' = 0
    /\ emitted' = 0
    /\ UNCHANGED <<context_operations, call, pass, input, record, errors, op_index,
                   applied, out>>

\* lines 107-111 on the record rec
Take(rec) ==
    /\ input' = rec
    /\ record' = ApplyDefaults(rec)
    /\ errors' = <<>>
    /\ op_index' = 0
    /\ applied' = NoApplied
    /\ pulled' = pulled + 1
    /\ out' = NoOut
    /\ pc' = "resolve"
    /\ UNCHANGED <<context_operations, call, raised, emitted>>

\* line 107: the for loop takes the next record of the iterator
PullRecord ==
    /\ pc = "next"
    /\ remaining > 0
    /\ remaining' = remaining - 1
    /\ pass' = 1
    /\ \E rec \in Records : Take(rec)

\* line 107, for a record whose __errors__ is no list
PullForeignRecord ==
    /\ pc = "next"
    /\ remaining > 0
    /\ remaining' = remaining - 1
    /\ pass' = 1
    /\ \E rec \in ForeignRecords : Take(rec)

\* line 107: the iterator is exhausted and the generator returns
Exhaust ==
    /\ pc = "next"
    /\ remaining = 0
    /\ pc' = "done"
    /\ UNCHANGED <<context_operations, call, raised, stream_vars>>

\* the yield of lines 119 and 132, or the exception that ends the generator
Yield(r) ==
    /\ record' = r.record
    /\ errors' = r.errors
    /\ raised' = r.raised
    /\ IF r.raised = ""
       THEN /\ out' = [record |-> r.record, errors |-> r.errors, n |-> pulled]
            /\ emitted' = emitted + 1
            /\ pc' = "yielded"
       ELSE /\ out' = NoOut
            /\ emitted' = emitted
            /\ pc' = "done"

\* lines 113-120 without the yield of line 119: an unrecognized record is
\* marked and the loop goes on to the next record
ResolveContextDrops ==
    /\ pc = "resolve"
    /\ IF Unrecognized(record["__type__"], context_operations)
       THEN /\ record' = Reject(record, errors).record
            /\ errors' = Reject(record, errors).errors
            /\ pc' = "next"
            /\ UNCHANGED <<raised, out, emitted, op_index>>
       ELSE /\ op_index' = 1
            /\ pc' = "ops"
            /\ UNCHANGED <<record, errors, raised, out, emitted>>
    /\ UNCHANGED <<context_operations, call, remaining, pulled, pass, input, applied>>

\* lines 113-120: the context is looked up; an unrecognized record is
\* yielded at once
ResolveContext ==
    /\ pc = "resolve"
    /\ IF Unrecognized(record["__type__"], context_operations)
       THEN /\ Yield(Reject(record, errors))
            /\ op_index' = op_index
       ELSE /\ op_index' = 1
            /\ pc' = "ops"
            /\ UNCHANGED <<record, errors, raised, out, emitted>>
    /\ UNCHANGED <<context_operations, call, remaining, pulled, pass, input, applied>>

\* lines 122-124: one turn of the inner for loop
ApplyOperation ==
    /\ pc = "ops"
    /\ op_index <= Len(Chain)
    /\ LET operation == NextOperation(Chain, op_index)
           r == apply(operation, record)
       IN  /\ record' = r.record
           /\ errors' = errors \o r.errors
           /\ applied' = [operation |-> operation, before |-> record,
                          after |-> r.record, errors |-> r.errors]
    /\ op_index' = op_index + 1
    /\ UNCHANGED <<context_operations, pc, call, raised, remaining, pulled, emitted,
                   pass, input, out>>

\* lines 126-132, after the last operation
EmitRecord ==
    /\ pc = "ops"
    /\ op_index > Len(Chain)
    /\ Yield(Finish(record, errors))
    /\ UNCHANGED <<context_operations, call, remaining, pulled, pass, input,
                   op_index, applied>>

\* the consumer takes the pair and asks for the next one.  The loop
\* variables are dead from here on: lines 107-108 rebind record and errors
\* before anything reads them, so the model forgets them here.
Consume ==
    /\ pc = "yielded"
    /\ out' = NoOut
    /\ pc' = "next"
    /\ input' = EmptyRecord
    /\ record' = EmptyRecord
    /\ errors' = <<>>
    /\ op_index' = 0
    /\ applied' = NoApplied
    /\ pass' = 0
    /\ UNCHANGED <<context_operations, call, raised, remaining, pulled, emitted>>

\* the consumer hands the record it received to process_stream once more
Resubmit ==
    /\ pc = "yielded"
    /\ pass < MaxPasses
    /\ pass' = pass + 1
    /\ remaining' = remaining
    /\ Take(out.record)

Next ==
    \/ CallRegister
    \/ RegisterContext
    \/ StartStream
    \/ PullRecord
    \/ Exhaust
    \/ ResolveContext
    \/ ApplyOperation
    \/ EmitRecord
    \/ Consume
    \/ Resubmit

Spec == Init /\ [][Next]_vars

\* the same program fed records whose __errors__ may be no list
NextAny == Next \/ PullForeignRecord

SpecAny == Init /\ [][NextAny]_vars

(***************************************************************************)
(* Vocabulary of the properties.                                           *)
(***************************************************************************)
\* a pair has just been emitted
Emitted == pc = "yielded"

\* the record's __type__ names a registered context
Registered(rec) ==
    /\ rec["__type__"].t = "str"
    /\ rec["__type__"].v[1] \in DOMAIN context_operations

\* the errors a record carries when it arrives
PriorErrors(rec) == IF Has(rec, "__errors__") THEN rec["__errors__"].v ELSE <<>>

\* the record arrives with no trace of an earlier failure
ArrivesClean(rec) ==
    /\ rec["__estado__"] \in {Absent, Text(VALIDO)}
    /\ rec["__errors__"] \in {Absent, PyList(<<>>)}

\* the operations of a list applied in order, each to the record the one
\* before it returned, and their errors concatenated
RECURSIVE RunChain(_, _, _)
RunChain(operations, rec, errs) ==
    IF operations = <<>>
    THEN [record |-> rec, errors |-> errs]
    ELSE LET r == apply(Head(operations), rec)
         IN  RunChain(Tail(operations), r.record, errs \o r.errors)

\* what the chain registered for the record's type returns on it
ChainOutcome(rec) ==
    RunChain(context_operations[rec["__type__"].v[1]], ApplyDefaults(rec), <<>>)

(***************************************************************************)
(* C1.  At the moment a pair is emitted, the record's status is "inválido" *)
(* if and only if the record's errors list is not empty.                   *)
(***************************************************************************)
C1_StatusIffErrors ==
    Emitted =>
        ((out.record["__estado__"] = Text(INVALIDO))
            <=> (out.record["__errors__"].v # <<>>))

(***************************************************************************)
(* C2.  A record whose __type__ is absent or names no registered context   *)
(* is emitted with status "inválido", a local error list holding exactly   *)
(* the "no reconocido" message, that message appended once to the record's *)
(* errors, and no operation applied: its other fields are unchanged.       *)
(***************************************************************************)
C2_UnrecognizedType ==
    ~Registered(input) =>
        /\ pc # "ops"
        /\ applied = NoApplied
        /\ Emitted =>
              /\ out.record["__estado__"] = Text(INVALIDO)
              /\ out.errors = <<MsgTipo(input["__type__"])>>
              /\ out.record["__errors__"] =
                    PyList(PriorErrors(input) \o <<MsgTipo(input["__type__"])>>)
              /\ \A k \in Fields \ {"__estado__", "__errors__"} :
                    out.record[k] = input[k]

C2_Witness ==
    /\ Emitted
    /\ input["__type__"] = Text("product_update")
    /\ PriorErrors(input) # <<>>

(***************************************************************************)
(* C3 as stated.  A record of a registered type whose whole chain returns  *)
(* no error is emitted with status "válido", an empty errors list and an   *)
(* empty local list.                                                       *)
(***************************************************************************)
C3_CleanRecordValid_Original ==
    (Emitted /\ Registered(input) /\ ChainOutcome(input).errors = <<>>) =>
        /\ out.record["__estado__"] = Text(VALIDO)
        /\ out.record["__errors__"] = PyList(<<>>)
        /\ out.errors = <<>>

(***************************************************************************)
(* C3 amended.  The same, for a record whose __type__ is not the empty     *)
(* string and that arrives with __estado__ absent or "válido" and with     *)
(* __errors__ absent or empty.                                             *)
(***************************************************************************)
C3_CleanRecordValid ==
    (/\ Emitted
     /\ Registered(input)
     /\ input["__type__"] # Text("")
     /\ ArrivesClean(input)
     /\ ChainOutcome(input).errors = <<>>) =>
        /\ out.record["__estado__"] = Text(VALIDO)
        /\ out.record["__errors__"] = PyList(<<>>)
        /\ out.errors = <<>>

C3_Witness ==
    /\ Emitted
    /\ input["__type__"] = Text("order_event")
    /\ Registered(input)
    /\ context_operations["order_event"] = ChainOrder
    /\ ArrivesClean(input)
    /\ out.errors = <<>>
    /\ out.record["__estado__"] = Text(VALIDO)

(***************************************************************************)
(* C4.  The defaults are set only for a key that is absent, and an         *)
(* existing __estado__ or __errors__ is kept by that step; a second pass   *)
(* over a record that came out valid of the pass before, when it finds no  *)
(* new error, leaves the status and the errors list as that pass left      *)
(* them.                                                                   *)
(***************************************************************************)
C4_DefaultingIdempotent ==
    /\ pc = "resolve" =>
          /\ record["__estado__"] =
                (IF Has(input, "__estado__") THEN input["__estado__"] ELSE Text(VALIDO))
          /\ record["__errors__"] =
                (IF Has(input, "__errors__") THEN input["__errors__"] ELSE PyList(<<>>))
          /\ \A k \in Fields \ {"__estado__", "__errors__"} : record[k] = input[k]
    /\ (Emitted /\ pass >= 2 /\ input["__estado__"] = Text(VALIDO) /\ out.errors = <<>>) =>
          /\ out.record["__estado__"] = input["__estado__"]
          /\ out.record["__errors__"] = input["__errors__"]

C4_Witness ==
    /\ Emitted
    /\ pass >= 2
    /\ input["__estado__"] = Text(VALIDO)
    /\ input["__errors__"] = PyList(<<MsgOld>>)
    /\ out.errors = <<>>

(***************************************************************************)
(* C5.  register_context on a registered type raises and leaves the        *)
(* registry as it was; on a type not yet registered it binds the type to   *)
(* the given list and changes no other entry.  Nothing else changes the    *)
(* registry.                                                               *)
(***************************************************************************)
C5_RegisterOnce ==
    [][IF pc = "register"
       THEN IF call.context_type \in DOMAIN context_operations
            THEN /\ raised' = "ValueError"
                 /\ context_operations' = context_operations
            ELSE /\ raised' = ""
                 /\ DOMAIN context_operations' =
                       DOMAIN context_operations \cup {call.context_type}
                 /\ context_operations'[call.context_type] = call.operations
                 /\ \A t \in DOMAIN context_operations :
                       context_operations'[t] = context_operations[t]
       ELSE context_operations' = context_operations]_vars

C5_Witness ==
    /\ pc = "setup"
    /\ raised = "ValueError"
    /\ DOMAIN context_operations = TypeIds
    /\ context_operations["order_event"] = ChainOrder
    /\ context_operations[""] = ChainDigits

(***************************************************************************)
(* C6.  One pair is emitted per record taken, in the order the records are *)
(* taken: the n-th pair is the n-th record's, it is emitted after the      *)
(* whole chain has run, the next record is taken only when every record    *)
(* taken so far has been emitted, and when the generator ends the iterator *)
(* is empty and as many pairs were emitted as records were taken.          *)
(***************************************************************************)
C6_OnePairPerRecord ==
    /\ pc \in {"next", "yielded", "done"} => emitted = pulled
    /\ pc \in {"resolve", "ops"} => emitted = pulled - 1
    /\ Emitted =>
          /\ out.n = pulled
          /\ out.record = record
          /\ out.record["__type__"] = input["__type__"]
          /\ Registered(input) /\ op_index > 0 => op_index = Len(Chain) + 1
    /\ pc = "done" => remaining = 0

C6_Witness ==
    /\ pc = "done"
    /\ emitted > MaxRecords
    /\ DOMAIN context_operations = TypeIds

(***************************************************************************)
(* C7.  No exception escapes the processing of a record, and every pair    *)
(* emitted carries a status.                                               *)
(***************************************************************************)
C7_NoExceptionEscapes ==
    /\ pc \notin {"setup", "register"} => raised = ""
    /\ Emitted => Has(out.record, "__estado__")

(***************************************************************************)
(* C8 as stated.  For a record of a registered type the operations of the  *)
(* chain are applied in registration order, each to the record the one     *)
(* before left; the local list is the concatenation of their errors in     *)
(* that order; the record's errors list is the list it had before the pass *)
(* followed by the local list.                                             *)
(***************************************************************************)
C8_ChainInOrder_Original ==
    (Emitted /\ Registered(input)) =>
        /\ out.errors = ChainOutcome(input).errors
        /\ \A k \in DataFields : out.record[k] = ChainOutcome(input).record[k]
        /\ out.record["__errors__"] = PyList(PriorErrors(input) \o out.errors)

(***************************************************************************)
(* C8 amended.  The same, for a record whose __type__ is not the empty     *)
(* string.                                                                 *)
(***************************************************************************)
C8_ChainInOrder ==
    (Emitted /\ Registered(input) /\ input["__type__"] # Text("")) =>
        /\ out.errors = ChainOutcome(input).errors
        /\ \A k \in DataFields : out.record[k] = ChainOutcome(input).record[k]
        /\ out.record["__errors__"] = PyList(PriorErrors(input) \o out.errors)

C8_Witness ==
    /\ Emitted
    /\ Registered(input)
    /\ input["__type__"] # Text("")
    /\ PriorErrors(input) # <<>>
    /\ Len(out.errors) >= 2
    /\ out.errors[1] # out.errors[2]

(***************************************************************************)
(* C9.  ContextualFieldValidation.apply returns at most one error, the one *)
(* of the first condition that holds: field absent, "no encontrado";       *)
(* pattern configured and not matched by the text of the value, "no cumple *)
(* formato esperado"; value falsy, "está vacío"; otherwise none.  The      *)
(* record is returned as it was.                                           *)
(***************************************************************************)
C9_ValidationFirstMatch ==
    applied.operation.kind = "ContextualFieldValidation" =>
        LET f == applied.operation.field_name
            regex == applied.operation.regex
            value == applied.before[f]
            fails == regex # NoRegex /\ ~re_match(regex, str(value))
        IN  /\ applied.after = applied.before
            /\ Len(applied.errors) <= 1
            /\ value = Absent => applied.errors = <<MsgObligatorio(f)>>
            /\ (value # Absent /\ fails) => applied.errors = <<MsgFormato(f)>>
            /\ (value # Absent /\ ~fails /\ ~Truthy(value)) =>
                  applied.errors = <<MsgVacio(f)>>
            /\ (value # Absent /\ ~fails /\ Truthy(value)) => applied.errors = <<>>

C9_Witness ==
    /\ applied.operation = ContextualFieldValidation("order_id", RegexORD)
    /\ applied.before["order_id"] = PyStr(<<>>)
    /\ applied.errors = <<MsgFormato("order_id")>>

(***************************************************************************)
(* C10.  NormalizeAmountOperation.apply: a field that is absent gives one  *)
(* "no encontrado" error and becomes None; a field that is None gives no   *)
(* error and the record stays as it was; a value whose cleaned text parses *)
(* gives no error and the field becomes that number; any other value gives *)
(* one "no se puede convertirse" error and the field becomes None.  No     *)
(* other field changes, and afterwards the field is present and is None or *)
(* a number.                                                               *)
(***************************************************************************)
C10_NormalizeAmount ==
    applied.operation.kind = "NormalizeAmountOperation" =>
        LET f == applied.operation.field_name
            value == applied.before[f]
            result == applied.after[f]
        IN  /\ \A k \in Fields \ {f} : applied.after[k] = applied.before[k]
            /\ result.t \in {"null", "float"}
            /\ value = Absent =>
                  applied.errors = <<MsgNoEncontrado(f)>> /\ result = None
            /\ value = None =>
                  applied.errors = <<>> /\ applied.after = applied.before
            /\ (value \notin {Absent, None} /\ FloatParses(cleaned_value(value))) =>
                  /\ applied.errors = <<>>
                  /\ result.t = "float"
                  /\ result = float(cleaned_value(value))
            /\ (value \notin {Absent, None} /\ ~FloatParses(cleaned_value(value))) =>
                  applied.errors = <<MsgNoFloat(value)>> /\ result = None
            /\ value = PyStr(<<"1", "2", ",", "5", " ", "E">>) =>
                  result = PyFloat(<<"1", "2", ".", "5">>)
            /\ value = PyStr(<<"-", "0", "7">>) =>
                  result = PyFloat(<<"-", "7", ".", "0">>)

C10_Witness ==
    /\ applied.operation = NormalizeAmountOperation("amount")
    /\ applied.before["amount"] = PyStr(<<"1", ",", "2", ".", "3">>)
    /\ applied.after["amount"] = None
    /\ Len(applied.errors) = 1

====
